---- MODULE Spec2Model ----
(***************************************************************************)
(* PQ-FSR reference ratchet (src/src/pqfsr/ratchet.py): the handshake      *)
(* state machine of RatchetSession and the ForwardRatchet encrypt/decrypt  *)
(* steps, over a symbolic (free term) model of SHA-256, HMAC, HKDF and the *)
(* in-memory KEM.  A byte string produced by a hash is a tuple whose first *)
(* element names the derivation; two such values are equal iff they were   *)
(* derived the same way from equal inputs.  Plaintext, associated data and *)
(* ciphertext are sequences of byte cells so that XOR with a keystream and *)
(* concatenation are computed, not assumed.                                *)
(***************************************************************************)
EXTENDS Integers, Sequences, FiniteSets, TLC

VARIABLES
    sess,     \* session name -> RatchetSession object
    reqs,     \* handshake requests returned so far, in call order
    resps,    \* handshake responses returned so far, in call order
    sent,     \* packets returned by encrypt so far, with the call's arguments
    blobs,    \* blobs returned by export_state so far
    last,     \* the most recent call: operation, session, arguments, outcome
    okcalls,  \* the accept / finalize / decrypt / from_serialized calls that
              \* returned normally
    flow,     \* how the two peers' packets have been delivered so far
    cap       \* how many packets the callers of this run produce at most

vars == <<sess, reqs, resps, sent, blobs, last, okcalls, flow, cap>>

-----------------------------------------------------------------------------
(* Bounds of the exploration *)

\* packets produced by encrypt, all sessions together, in a run that starts
\* from a completed handshake
MaxPackets == 3
\* the same, in a run that starts from freshly constructed sessions
MaxPacketsHS == 1
\* the same, in a run that starts from a completed handshake and exports
\* and restores sessions
MaxPacketsSnap == 2
\* blobs produced by export_state
MaxExport == 1
\* sessions created by from_serialized
MaxRestore == 1
\* largest max_skip a session is constructed with
MaxSkipArg == 2
\* packets produced in a run in which packets are altered in transit
MaxPacketsTamper == 2
\* packets produced in a run in which one peer sends and the other receives
MaxPacketsCache == 3
MAX_SKIP_DEFAULT == 32

HintPairs == {<<1, 2>>}
SameHints == {<<1, 1>>}
Cell(v) == [v |-> v, m |-> <<"none">>]
ADs == {<<>>, <<Cell(9)>>}
RestoredNames == <<"R1", "R2", "R3">>

-----------------------------------------------------------------------------
(* Byte-string terms *)

None == <<"None">>
LABEL_A_TO_B == <<"CHAIN|A2B">>
LABEL_B_TO_A == <<"CHAIN|B2A">>
VERSION1 == <<"00000001">>

\* the n-th value drawn from session s's random_bytes source
random_bytes(s, n) == <<"rnd", s, n>>

hkdf(secret, salt, info) == <<"hkdf", secret, salt, info>>

\* variant: after bootstrap the root key is kept as it is
mix_root_frozen(previous_root, shared_secret, semantic_digest) ==
    IF previous_root = None
    THEN <<"sha256", <<"zero32">>, shared_secret, semantic_digest>>
    ELSE previous_root

mix_root(previous_root, shared_secret, semantic_digest) ==
    <<"sha256", IF previous_root = None THEN <<"zero32">> ELSE previous_root,
      shared_secret, semantic_digest>>

\* variant: the chain seed is derived from the digest and the label only
derive_chain_seed_rootless(root_key, semantic_digest, label) ==
    hkdf(<<"zero32">>, semantic_digest, label)

derive_chain_seed(root_key, semantic_digest, label) ==
    hkdf(root_key, semantic_digest, label)

\* variant: key, nonce and next chain key depend on the counter only
derive_message_material_keyless(chain_key, counter) ==
    [message_key |-> <<"MSG", <<"zero32">>, counter>>,
     next_chain  |-> <<"CHAIN", <<"zero32">>, counter>>,
     nonce       |-> <<"NONCE", <<"zero32">>, counter>>]

derive_message_material(chain_key, counter) ==
    [message_key |-> <<"MSG", chain_key, counter>>,
     next_chain  |-> <<"CHAIN", chain_key, counter>>,
     nonce       |-> <<"NONCE", chain_key, counter>>]

\* variant: the tag does not depend on the counter
compute_semantic_tag_uncounted(combined_digest, counter) ==
    <<"semtag", combined_digest, 0>>

compute_semantic_tag(combined_digest, counter) ==
    <<"semtag", combined_digest, counter>>

expand_keystream(message_key, nonce, length) ==
    [i \in 1..length |-> <<"ks", message_key, nonce, i>>]

\* one byte XOR one keystream byte: x ^ k ^ k = x
xor_byte(c, k) ==
    IF c.m = <<"none">> THEN [v |-> c.v, m |-> k]
    ELSE IF c.m = k THEN [v |-> c.v, m |-> <<"none">>]
    ELSE [v |-> c.v, m |-> <<"ks2", c.m, k>>]

\* bytes(a ^ b for a, b in zip(data, keystream))
xor_bytes(data, keystream) ==
    [i \in 1..Len(data) |-> xor_byte(data[i], keystream[i])]

\* hmac.new(key, ciphertext + associated_data + nonce, sha256).digest();
\* the nonce has a fixed length, so only ciphertext + associated_data is
\* an ambiguous concatenation
hmac_tag(key, ciphertext, associated_data, nonce) ==
    <<"hmac", key, ciphertext \o associated_data, nonce>>

-----------------------------------------------------------------------------
(* InMemoryKEM *)

kem_public(private) == <<"pk", private>>

encapsulate(public_key, eph) ==
    [ciphertext |-> <<"PQFSR", eph, public_key>>,
     shared     |-> <<"ss", public_key, eph>>]

\* len(ciphertext) of a KEM ciphertext: 5 + 32 + len(public_key)
kem_ct_len(ciphertext) == 5 + 32 + (IF ciphertext[3] = <<>> THEN 0 ELSE 32)

\* variant: the shared secret is hashed from the private key itself
decapsulate_private(ciphertext, private_key) ==
    <<"ss", private_key, ciphertext[2]>>

decapsulate(ciphertext, private_key) ==
    <<"ss", kem_public(private_key), ciphertext[2]>>

-----------------------------------------------------------------------------
(* RatchetSession construction and digests *)

semantic_digest(semantic_hint) == <<"sem", semantic_hint>>

\* byte-wise order of two SHA-256 digests: some fixed total order that is
\* unrelated to the order of the hints
digest_rank(d) == (d[2] * 3) % 5
\* variant: the two digests are hashed in the order local, remote
combine_digest_unsorted(local_digest, remote_digest) ==
    <<"sha256", local_digest, remote_digest>>

combine_digest(local_digest, remote_digest) ==
    IF digest_rank(local_digest) <= digest_rank(remote_digest)
    THEN <<"sha256", local_digest, remote_digest>>
    ELSE <<"sha256", remote_digest, local_digest>>

RatchetSession(is_initiator, semantic_hint, max_skip) ==
    [is_initiator  |-> is_initiator,
     semantic_hint |-> semantic_hint,
     max_skip      |-> max_skip,
     state         |-> <<>>,          \* <<>> is None, <<st>> a RatchetState
     ready         |-> FALSE,
     pending       |-> <<>>,          \* <<>> is None, <<p>> a pending handshake
     remote_digest |-> None,
     handshake_id  |-> None,
     local_digest  |-> semantic_digest(semantic_hint),
     draws         |-> 0]             \* values drawn from random_bytes so far

\* variant: the responder does not mirror the receive label
bootstrap_unmirrored(shared_secret, combined_digest, local_digest, remote_digest, is_initiator, local_public, local_private, max_skip) ==
    LET root == mix_root(None, shared_secret, combined_digest)
        send_label == IF is_initiator THEN LABEL_A_TO_B ELSE LABEL_B_TO_A
        recv_label == LABEL_B_TO_A
    IN [root_key              |-> root,
        send_chain_key        |-> derive_chain_seed(root, combined_digest, send_label),
        recv_chain_key        |-> derive_chain_seed(root, combined_digest, recv_label),
        send_label            |-> send_label,
        recv_label            |-> recv_label,
        send_count            |-> 0,
        recv_count            |-> 0,
        local_ratchet_private |-> local_private,
        local_ratchet_public  |-> local_public,
        remote_ratchet_public |-> None,
        combined_digest       |-> combined_digest,
        local_digest          |-> local_digest,
        remote_digest         |-> remote_digest,
        skipped_message_keys  |-> <<>>,
        max_skip              |-> max_skip]

bootstrap(shared_secret, combined_digest, local_digest, remote_digest, is_initiator, local_public, local_private, max_skip) ==
    LET root == mix_root(None, shared_secret, combined_digest)
        send_label == IF is_initiator THEN LABEL_A_TO_B ELSE LABEL_B_TO_A
        recv_label == IF is_initiator THEN LABEL_B_TO_A ELSE LABEL_A_TO_B
    IN [root_key              |-> root,
        send_chain_key        |-> derive_chain_seed(root, combined_digest, send_label),
        recv_chain_key        |-> derive_chain_seed(root, combined_digest, recv_label),
        send_label            |-> send_label,
        recv_label            |-> recv_label,
        send_count            |-> 0,
        recv_count            |-> 0,
        local_ratchet_private |-> local_private,
        local_ratchet_public  |-> local_public,
        remote_ratchet_public |-> None,
        combined_digest       |-> combined_digest,
        local_digest          |-> local_digest,
        remote_digest         |-> remote_digest,
        skipped_message_keys  |-> <<>>,
        max_skip              |-> max_skip]

\* variant: a pending handshake counts as ready
is_ready_pending(session) == session.ready \/ session.pending # <<>>

is_ready(session) == session.ready /\ session.state # <<>>

-----------------------------------------------------------------------------
(* Outcome of a call *)

\* again: the call is a decrypt of a packet that this session has already
\* decrypted successfully.  tamper: how the message handed to the call
\* differs from the one that was produced ("none": it does not).
NoCall == [op |-> "none", s |-> "", ok |-> TRUE, err |-> "", k |-> 0,
           ad |-> <<>>, pt |-> <<>>, again |-> FALSE, tamper |-> "none"]
Call(op, s, k, ad) == [op |-> op, s |-> s, ok |-> TRUE, err |-> "", k |-> k,
                       ad |-> ad, pt |-> <<>>, again |-> FALSE, tamper |-> "none"]
Raised(op, s, k, ad, msg) == [op |-> op, s |-> s, ok |-> FALSE, err |-> msg,
                              k |-> k, ad |-> ad, pt |-> <<>>, again |-> FALSE,
                              tamper |-> "none"]

-----------------------------------------------------------------------------
(* Delivery history of the peers "A" and "B".  clean: every packet of a     *)
(* peer was handed at most once, to the other peer, with the associated     *)
(* data it was encrypted with, and no peer encrypted while a packet of the  *)
(* other peer was still undelivered.  inorder: packets were moreover handed *)
(* over in the order they were produced.  backlog: the largest number of    *)
(* undelivered packets at any time.                                         *)

Peers == {"A", "B"}
Broken == [clean |-> FALSE, inorder |-> FALSE, got |-> {}, backlog |-> 0]
Idle == [clean |-> TRUE, inorder |-> TRUE, got |-> {}, backlog |-> 0]
Outstanding == {k \in 1..Len(sent) : sent[k].by \in Peers /\ k \notin flow.got}
MinOf(S) == CHOOSE x \in S : \A y \in S : x <= y

FlowEncrypt(s) ==
    IF s \notin Peers THEN flow
    ELSE IF flow.clean /\ \A k \in Outstanding : sent[k].by = s
    THEN [flow EXCEPT !.backlog = IF Cardinality(Outstanding) + 1 > @
                                  THEN Cardinality(Outstanding) + 1 ELSE @]
    ELSE Broken

FlowDecrypt(s, k, ad) ==
    IF s \notin Peers THEN flow
    ELSE IF flow.clean /\ k \in Outstanding /\ ad = sent[k].ad
    THEN [flow EXCEPT !.got = @ \cup {k},
                      !.inorder = @ /\ k = MinOf(Outstanding)]
    ELSE Broken

-----------------------------------------------------------------------------
(* Handshake *)

\* variant: the role is not checked
create_handshake_request_any(s, session) ==
    IF session.ready THEN [err |-> "Handshake already completed"]
    ELSE IF session.pending # <<>> THEN [err |-> "Handshake already pending"]
    ELSE LET kem_private     == random_bytes(s, session.draws)
             ratchet_private == random_bytes(s, session.draws + 1)
             handshake_id    == random_bytes(s, session.draws + 2)
         IN [err |-> "",
             session |-> [session EXCEPT
                 !.pending = << [kem_private     |-> kem_private,
                                 ratchet_private |-> ratchet_private,
                                 ratchet_public  |-> kem_public(ratchet_private),
                                 handshake_id    |-> handshake_id] >>,
                 !.draws = @ + 3],
             request |-> [version         |-> VERSION1,
                          handshake_id    |-> handshake_id,
                          kem_public      |-> kem_public(kem_private),
                          ratchet_public  |-> kem_public(ratchet_private),
                          semantic_digest |-> session.local_digest]]

create_handshake_request(s, session) ==
    IF ~session.is_initiator
    THEN [err |-> "Only initiators can create handshake requests"]
    ELSE IF session.ready THEN [err |-> "Handshake already completed"]
    ELSE IF session.pending # <<>> THEN [err |-> "Handshake already pending"]
    ELSE LET kem_private     == random_bytes(s, session.draws)
             ratchet_private == random_bytes(s, session.draws + 1)
             handshake_id    == random_bytes(s, session.draws + 2)
         IN [err |-> "",
             session |-> [session EXCEPT
                 !.pending = << [kem_private     |-> kem_private,
                                 ratchet_private |-> ratchet_private,
                                 ratchet_public  |-> kem_public(ratchet_private),
                                 handshake_id    |-> handshake_id] >>,
                 !.draws = @ + 3],
             request |-> [version         |-> VERSION1,
                          handshake_id    |-> handshake_id,
                          kem_public      |-> kem_public(kem_private),
                          ratchet_public  |-> kem_public(ratchet_private),
                          semantic_digest |-> session.local_digest]]

\* variant: a completed handshake is not checked for
accept_handshake_again(s, session, request) ==
    IF session.is_initiator THEN [err |-> "Initiator cannot accept handshake"]
    ELSE LET remote_digest   == request.semantic_digest
             combined_digest == combine_digest(session.local_digest, remote_digest)
             kem == encapsulate(request.kem_public, random_bytes(s, session.draws))
             local_ratchet_private == random_bytes(s, session.draws + 1)
             local_ratchet_public  == kem_public(local_ratchet_private)
             state == bootstrap(kem.shared, combined_digest, session.local_digest,
                                remote_digest, FALSE, local_ratchet_public,
                                local_ratchet_private, session.max_skip)
         IN [err |-> "",
             session |-> [session EXCEPT
                 !.state = << [state EXCEPT
                                 !.remote_ratchet_public = request.ratchet_public] >>,
                 !.remote_digest = remote_digest,
                 !.handshake_id = request.handshake_id,
                 !.ready = TRUE,
                 !.draws = @ + 2],
             response |-> [version         |-> VERSION1,
                           handshake_id    |-> request.handshake_id,
                           kem_ciphertext  |-> kem.ciphertext,
                           ratchet_public  |-> local_ratchet_public,
                           semantic_digest |-> session.local_digest]]

accept_handshake(s, session, request) ==
    IF session.is_initiator THEN [err |-> "Initiator cannot accept handshake"]
    ELSE IF session.ready THEN [err |-> "Handshake already completed"]
    ELSE LET remote_digest   == request.semantic_digest
             combined_digest == combine_digest(session.local_digest, remote_digest)
             kem == encapsulate(request.kem_public, random_bytes(s, session.draws))
             local_ratchet_private == random_bytes(s, session.draws + 1)
             local_ratchet_public  == kem_public(local_ratchet_private)
             state == bootstrap(kem.shared, combined_digest, session.local_digest,
                                remote_digest, FALSE, local_ratchet_public,
                                local_ratchet_private, session.max_skip)
         IN [err |-> "",
             session |-> [session EXCEPT
                 !.state = << [state EXCEPT
                                 !.remote_ratchet_public = request.ratchet_public] >>,
                 !.remote_digest = remote_digest,
                 !.handshake_id = request.handshake_id,
                 !.ready = TRUE,
                 !.draws = @ + 2],
             response |-> [version         |-> VERSION1,
                           handshake_id    |-> request.handshake_id,
                           kem_ciphertext  |-> kem.ciphertext,
                           ratchet_public  |-> local_ratchet_public,
                           semantic_digest |-> session.local_digest]]

\* variant: the handshake identifier is not compared
finalize_handshake_any_id(session, response) ==
    IF ~session.is_initiator THEN [err |-> "Responder cannot finalize handshake"]
    ELSE IF session.ready THEN [err |-> "Handshake already completed"]
    ELSE IF session.pending = <<>> THEN [err |-> "No pending handshake"]
    ELSE LET pending == session.pending[1]
         IN IF kem_ct_len(response.kem_ciphertext) < 37
            THEN [err |-> "ciphertext too short"]
            ELSE
            LET shared_secret   == decapsulate(response.kem_ciphertext, pending.kem_private)
                remote_digest   == response.semantic_digest
                combined_digest == combine_digest(session.local_digest, remote_digest)
                state == bootstrap(shared_secret, combined_digest, session.local_digest,
                                   remote_digest, TRUE, pending.ratchet_public,
                                   pending.ratchet_private, session.max_skip)
            IN [err |-> "",
                session |-> [session EXCEPT
                    !.state = << [state EXCEPT
                                    !.remote_ratchet_public = response.ratchet_public] >>,
                    !.remote_digest = remote_digest,
                    !.handshake_id = response.handshake_id,
                    !.ready = TRUE,
                    !.pending = <<>>]]

finalize_handshake(session, response) ==
    IF ~session.is_initiator THEN [err |-> "Responder cannot finalize handshake"]
    ELSE IF session.ready THEN [err |-> "Handshake already completed"]
    ELSE IF session.pending = <<>> THEN [err |-> "No pending handshake"]
    ELSE LET pending == session.pending[1]
         IN IF pending.handshake_id # response.handshake_id
            THEN [err |-> "Handshake identifier mismatch"]
            ELSE IF kem_ct_len(response.kem_ciphertext) < 37
            THEN [err |-> "ciphertext too short"]
            ELSE
            LET shared_secret   == decapsulate(response.kem_ciphertext, pending.kem_private)
                remote_digest   == response.semantic_digest
                combined_digest == combine_digest(session.local_digest, remote_digest)
                state == bootstrap(shared_secret, combined_digest, session.local_digest,
                                   remote_digest, TRUE, pending.ratchet_public,
                                   pending.ratchet_private, session.max_skip)
            IN [err |-> "",
                session |-> [session EXCEPT
                    !.state = << [state EXCEPT
                                    !.remote_ratchet_public = response.ratchet_public] >>,
                    !.remote_digest = remote_digest,
                    !.handshake_id = response.handshake_id,
                    !.ready = TRUE,
                    !.pending = <<>>]]

\* a response whose handshake_id was replaced (tests: b"wrong-id")
WrongId == <<"wrong-id">>
tamper_response(response) == [response EXCEPT !.handshake_id = WrongId]

CreateHandshakeRequest(s) ==
    LET r == create_handshake_request(s, sess[s])
    IN /\ IF r.err = ""
          THEN /\ sess' = [sess EXCEPT ![s] = r.session]
               /\ reqs' = Append(reqs, [msg |-> r.request, by |-> s])
               /\ last' = Call("create_handshake_request", s, Len(reqs) + 1, <<>>)
          ELSE /\ last' = Raised("create_handshake_request", s, 0, <<>>, r.err)
               /\ UNCHANGED <<sess, reqs>>
       /\ UNCHANGED <<resps, sent, blobs, okcalls, flow, cap>>

AcceptHandshake(s, k) ==
    LET r == accept_handshake(s, sess[s], reqs[k].msg)
    IN /\ IF r.err = ""
          THEN /\ sess' = [sess EXCEPT ![s] = r.session]
               /\ resps' = Append(resps, [msg |-> r.response, by |-> s, req |-> k])
               /\ last' = Call("accept_handshake", s, k, <<>>)
               /\ okcalls' = okcalls \cup {<<"accept_handshake", s, k>>}
          ELSE /\ last' = Raised("accept_handshake", s, k, <<>>, r.err)
               /\ UNCHANGED <<sess, resps, okcalls>>
       /\ UNCHANGED <<reqs, sent, blobs, flow, cap>>

FinalizeHandshake(s, k) ==
    LET r == finalize_handshake(sess[s], resps[k].msg)
    IN /\ IF r.err = ""
          THEN /\ sess' = [sess EXCEPT ![s] = r.session]
               /\ last' = Call("finalize_handshake", s, k, <<>>)
               /\ okcalls' = okcalls \cup {<<"finalize_handshake", s, k>>}
          ELSE /\ last' = Raised("finalize_handshake", s, k, <<>>, r.err)
               /\ UNCHANGED <<sess, okcalls>>
       /\ UNCHANGED <<reqs, resps, sent, blobs, flow, cap>>

\* finalize_handshake is handed response k with a replaced handshake_id
FinalizeTampered(s, k) ==
    LET r == finalize_handshake(sess[s], tamper_response(resps[k].msg))
    IN /\ IF r.err = ""
          THEN /\ sess' = [sess EXCEPT ![s] = r.session]
               /\ last' = [Call("finalize_handshake", s, k, <<>>)
                              EXCEPT !.tamper = "handshake_id"]
          ELSE /\ last' = [Raised("finalize_handshake", s, k, <<>>, r.err)
                              EXCEPT !.tamper = "handshake_id"]
               /\ UNCHANGED sess
       /\ UNCHANGED <<reqs, resps, sent, blobs, okcalls, flow, cap>>

\* a request one of whose fields was replaced after create_handshake_request
\* returned it
RequestTampers == {"kem_public", "ratchet_public", "semantic_digest", "handshake_id"}
WrongPublic == <<"pk", <<"wrong-pub">>>>
WrongDigest == <<"sem", 0>>
tamper_request(request, how) ==
    CASE how = "kem_public" -> [request EXCEPT !.kem_public = WrongPublic]
      [] how = "ratchet_public" -> [request EXCEPT !.ratchet_public = WrongPublic]
      [] how = "semantic_digest" -> [request EXCEPT !.semantic_digest = WrongDigest]
      [] how = "handshake_id" -> [request EXCEPT !.handshake_id = WrongId]

AcceptTampered(s, k, how) ==
    LET r == accept_handshake(s, sess[s], tamper_request(reqs[k].msg, how))
    IN /\ IF r.err = ""
          THEN /\ sess' = [sess EXCEPT ![s] = r.session]
               /\ resps' = Append(resps, [msg |-> r.response, by |-> s, req |-> k])
               /\ last' = [Call("accept_handshake", s, k, <<>>)
                              EXCEPT !.tamper = how]
          ELSE /\ last' = [Raised("accept_handshake", s, k, <<>>, r.err)
                              EXCEPT !.tamper = how]
               /\ UNCHANGED <<sess, resps>>
       /\ UNCHANGED <<reqs, sent, blobs, okcalls, flow, cap>>

-----------------------------------------------------------------------------
(* ForwardRatchet: skipped-key cache, encrypt, decrypt *)

\* variant: nothing is evicted when the cache is full
store_skipped_key_keep(state, idx, message_key, nonce) ==
    LET keys == state.skipped_message_keys
    IN [state EXCEPT !.skipped_message_keys =
            [i \in DOMAIN keys \cup {idx} |->
                IF i = idx THEN <<message_key, nonce>> ELSE keys[i]]]

store_skipped_key(state, idx, message_key, nonce) ==
    LET keys == state.skipped_message_keys
        kept == IF Cardinality(DOMAIN keys) >= state.max_skip
                THEN [i \in DOMAIN keys \ {MinOf(DOMAIN keys)} |-> keys[i]]
                ELSE keys
    IN [state EXCEPT !.skipped_message_keys =
            [i \in DOMAIN kept \cup {idx} |->
                IF i = idx THEN <<message_key, nonce>> ELSE kept[i]]]

\* dict.pop(idx, None): the entry, if any, leaves the cache
recover_skipped_key(state, idx) ==
    LET keys == state.skipped_message_keys
    IN IF idx \in DOMAIN keys
       THEN [found |-> TRUE, message_key |-> keys[idx][1], nonce |-> keys[idx][2],
             state |-> [state EXCEPT !.skipped_message_keys =
                           [i \in DOMAIN keys \ {idx} |-> keys[i]]]]
       ELSE [found |-> FALSE, state |-> state]

\* variant: send_count is not advanced
ratchet_encrypt_uncounted(state, plaintext, associated_data, eph, new_private) ==
    IF state.remote_ratchet_public = None
    THEN [err |-> "Remote ratchet public key missing", state |-> state]
    ELSE
    LET kem      == encapsulate(state.remote_ratchet_public, eph)
        root_key == mix_root(state.root_key, kem.shared, state.combined_digest)
        send_chain_key == derive_chain_seed(root_key, state.combined_digest, state.send_label)
        recv_chain_key == derive_chain_seed(root_key, state.combined_digest, state.recv_label)
        mat == derive_message_material(send_chain_key, state.send_count)
        keystream  == expand_keystream(mat.message_key, mat.nonce, Len(plaintext))
        ciphertext == xor_bytes(plaintext, keystream)
        auth_tag   == hmac_tag(mat.message_key, ciphertext, associated_data, mat.nonce)
        header == [version        |-> 1,
                   count          |-> state.send_count,
                   ratchet_pub    |-> kem_public(new_private),
                   kem_ciphertext |-> kem.ciphertext,
                   semantic_tag   |-> compute_semantic_tag(state.combined_digest,
                                                           state.send_count)]
    IN [err |-> "",
        state |-> [state EXCEPT
            !.root_key = root_key,
            !.send_chain_key = mat.next_chain,
            !.recv_chain_key = recv_chain_key,
            !.local_ratchet_private = new_private,
            !.local_ratchet_public = kem_public(new_private)],
        packet |-> [header |-> header, ciphertext |-> ciphertext,
                    auth_tag |-> auth_tag, nonce |-> mat.nonce]]

\* variant: the packet is keyed from the mixed root, the stored root is kept
ratchet_encrypt_rootkept(state, plaintext, associated_data, eph, new_private) ==
    IF state.remote_ratchet_public = None
    THEN [err |-> "Remote ratchet public key missing", state |-> state]
    ELSE
    LET kem      == encapsulate(state.remote_ratchet_public, eph)
        root_key == mix_root(state.root_key, kem.shared, state.combined_digest)
        send_chain_key == derive_chain_seed(root_key, state.combined_digest, state.send_label)
        recv_chain_key == derive_chain_seed(root_key, state.combined_digest, state.recv_label)
        mat == derive_message_material(send_chain_key, state.send_count)
        keystream  == expand_keystream(mat.message_key, mat.nonce, Len(plaintext))
        ciphertext == xor_bytes(plaintext, keystream)
        auth_tag   == hmac_tag(mat.message_key, ciphertext, associated_data, mat.nonce)
        header == [version        |-> 1,
                   count          |-> state.send_count,
                   ratchet_pub    |-> kem_public(new_private),
                   kem_ciphertext |-> kem.ciphertext,
                   semantic_tag   |-> compute_semantic_tag(state.combined_digest,
                                                           state.send_count)]
    IN [err |-> "",
        state |-> [state EXCEPT
            !.send_chain_key = mat.next_chain,
            !.recv_chain_key = recv_chain_key,
            !.local_ratchet_private = new_private,
            !.local_ratchet_public = kem_public(new_private),
            !.send_count = @ + 1],
        packet |-> [header |-> header, ciphertext |-> ciphertext,
                    auth_tag |-> auth_tag, nonce |-> mat.nonce]]

\* variant: the fresh public key is also stored as the remote one
ratchet_encrypt_selfkeyed(state, plaintext, associated_data, eph, new_private) ==
    IF state.remote_ratchet_public = None
    THEN [err |-> "Remote ratchet public key missing", state |-> state]
    ELSE
    LET kem      == encapsulate(state.remote_ratchet_public, eph)
        root_key == mix_root(state.root_key, kem.shared, state.combined_digest)
        send_chain_key == derive_chain_seed(root_key, state.combined_digest, state.send_label)
        recv_chain_key == derive_chain_seed(root_key, state.combined_digest, state.recv_label)
        mat == derive_message_material(send_chain_key, state.send_count)
        keystream  == expand_keystream(mat.message_key, mat.nonce, Len(plaintext))
        ciphertext == xor_bytes(plaintext, keystream)
        auth_tag   == hmac_tag(mat.message_key, ciphertext, associated_data, mat.nonce)
        header == [version        |-> 1,
                   count          |-> state.send_count,
                   ratchet_pub    |-> kem_public(new_private),
                   kem_ciphertext |-> kem.ciphertext,
                   semantic_tag   |-> compute_semantic_tag(state.combined_digest,
                                                           state.send_count)]
    IN [err |-> "",
        state |-> [state EXCEPT
            !.root_key = root_key,
            !.send_chain_key = mat.next_chain,
            !.recv_chain_key = recv_chain_key,
            !.local_ratchet_private = new_private,
            !.local_ratchet_public = kem_public(new_private),
            !.remote_ratchet_public = kem_public(new_private),
            !.send_count = @ + 1],
        packet |-> [header |-> header, ciphertext |-> ciphertext,
                    auth_tag |-> auth_tag, nonce |-> mat.nonce]]

\* variant: the root is not mixed and the send counter is not advanced
ratchet_encrypt_static(state, plaintext, associated_data, eph, new_private) ==
    IF state.remote_ratchet_public = None
    THEN [err |-> "Remote ratchet public key missing", state |-> state]
    ELSE
    LET kem      == encapsulate(state.remote_ratchet_public, eph)
        root_key == state.root_key
        send_chain_key == derive_chain_seed(root_key, state.combined_digest, state.send_label)
        recv_chain_key == derive_chain_seed(root_key, state.combined_digest, state.recv_label)
        mat == derive_message_material(send_chain_key, state.send_count)
        keystream  == expand_keystream(mat.message_key, mat.nonce, Len(plaintext))
        ciphertext == xor_bytes(plaintext, keystream)
        auth_tag   == hmac_tag(mat.message_key, ciphertext, associated_data, mat.nonce)
        header == [version        |-> 1,
                   count          |-> state.send_count,
                   ratchet_pub    |-> kem_public(new_private),
                   kem_ciphertext |-> kem.ciphertext,
                   semantic_tag   |-> compute_semantic_tag(state.combined_digest,
                                                           state.send_count)]
    IN [err |-> "",
        state |-> [state EXCEPT
            !.root_key = root_key,
            !.send_chain_key = mat.next_chain,
            !.recv_chain_key = recv_chain_key,
            !.local_ratchet_private = new_private,
            !.local_ratchet_public = kem_public(new_private)],
        packet |-> [header |-> header, ciphertext |-> ciphertext,
                    auth_tag |-> auth_tag, nonce |-> mat.nonce]]

ratchet_encrypt(state, plaintext, associated_data, eph, new_private) ==
    IF state.remote_ratchet_public = None
    THEN [err |-> "Remote ratchet public key missing", state |-> state]
    ELSE
    LET kem      == encapsulate(state.remote_ratchet_public, eph)
        root_key == mix_root(state.root_key, kem.shared, state.combined_digest)
        send_chain_key == derive_chain_seed(root_key, state.combined_digest, state.send_label)
        recv_chain_key == derive_chain_seed(root_key, state.combined_digest, state.recv_label)
        mat == derive_message_material(send_chain_key, state.send_count)
        keystream  == expand_keystream(mat.message_key, mat.nonce, Len(plaintext))
        ciphertext == xor_bytes(plaintext, keystream)
        auth_tag   == hmac_tag(mat.message_key, ciphertext, associated_data, mat.nonce)
        header == [version        |-> 1,
                   count          |-> state.send_count,
                   ratchet_pub    |-> kem_public(new_private),
                   kem_ciphertext |-> kem.ciphertext,
                   semantic_tag   |-> compute_semantic_tag(state.combined_digest,
                                                           state.send_count)]
    IN [err |-> "",
        state |-> [state EXCEPT
            !.root_key = root_key,
            !.send_chain_key = mat.next_chain,
            !.recv_chain_key = recv_chain_key,
            !.local_ratchet_private = new_private,
            !.local_ratchet_public = kem_public(new_private),
            !.send_count = @ + 1],
        packet |-> [header |-> header, ciphertext |-> ciphertext,
                    auth_tag |-> auth_tag, nonce |-> mat.nonce]]

\* variant: skipping stops when the cache is full
RECURSIVE skip_to_limited(_, _)
skip_to_limited(state, message_index) ==
    IF /\ state.recv_count < message_index
       /\ Cardinality(DOMAIN state.skipped_message_keys) < state.max_skip
    THEN LET mat == derive_message_material(state.recv_chain_key, state.recv_count)
             stored == store_skipped_key([state EXCEPT !.recv_chain_key = mat.next_chain],
                                         state.recv_count, mat.message_key, mat.nonce)
         IN skip_to_limited([stored EXCEPT !.recv_count = @ + 1], message_index)
    ELSE state

\* while state.recv_count < message_index: derive, store, advance
RECURSIVE skip_to(_, _)
skip_to(state, message_index) ==
    IF state.recv_count < message_index
    THEN LET mat == derive_message_material(state.recv_chain_key, state.recv_count)
             stored == store_skipped_key([state EXCEPT !.recv_chain_key = mat.next_chain],
                                         state.recv_count, mat.message_key, mat.nonce)
         IN skip_to([stored EXCEPT !.recv_count = @ + 1], message_index)
    ELSE state

\* lines 264-271: keystream, plaintext, tag comparison
open_packet(state, message_key, nonce, packet, associated_data) ==
    LET keystream == expand_keystream(message_key, nonce, Len(packet.ciphertext))
        expected_tag == hmac_tag(message_key, packet.ciphertext, associated_data, nonce)
    IN IF expected_tag # packet.auth_tag
       THEN [err |-> "Authentication tag mismatch", state |-> state]
       ELSE [err |-> "", state |-> state,
             plaintext |-> xor_bytes(packet.ciphertext, keystream)]

\* variant: a received pulse starts the send counter again
ratchet_decrypt_newchain(state, packet, associated_data) ==
    LET header == packet.header
        message_index == header.count
    IN IF message_index < state.recv_count
       THEN LET cached == recover_skipped_key(state, message_index)
            IN IF ~cached.found
               THEN [err |-> "Message already processed", state |-> cached.state]
               ELSE IF cached.nonce # packet.nonce
               THEN [err |-> "Nonce mismatch", state |-> cached.state]
               ELSE open_packet(cached.state, cached.message_key, cached.nonce,
                                packet, associated_data)
       ELSE IF compute_semantic_tag(state.combined_digest, message_index)
                   # header.semantic_tag
       THEN [err |-> "Semantic tag mismatch", state |-> state]
       ELSE IF kem_ct_len(header.kem_ciphertext) < 37
       THEN [err |-> "ciphertext too short", state |-> state]
       ELSE
       LET shared_secret == decapsulate(header.kem_ciphertext, state.local_ratchet_private)
           root_key == mix_root(state.root_key, shared_secret, state.combined_digest)
           mixed == [state EXCEPT
               !.root_key = root_key,
               !.remote_ratchet_public = header.ratchet_pub,
               !.send_count = 0,
               !.send_chain_key = derive_chain_seed(root_key, state.combined_digest,
                                                    state.send_label),
               !.recv_chain_key = derive_chain_seed(root_key, state.combined_digest,
                                                    state.recv_label)]
           skipped == skip_to(mixed, message_index)
           mat == derive_message_material(skipped.recv_chain_key, skipped.recv_count)
           advanced == [skipped EXCEPT !.recv_chain_key = mat.next_chain,
                                       !.recv_count = @ + 1]
       IN IF mat.nonce # packet.nonce
          THEN [err |-> "Nonce mismatch", state |-> advanced]
          ELSE open_packet(advanced, mat.message_key, mat.nonce, packet, associated_data)

\* variant: recv_count is not advanced past the packet that was processed
ratchet_decrypt_stuck(state, packet, associated_data) ==
    LET header == packet.header
        message_index == header.count
    IN IF message_index < state.recv_count
       THEN LET cached == recover_skipped_key(state, message_index)
            IN IF ~cached.found
               THEN [err |-> "Message already processed", state |-> cached.state]
               ELSE IF cached.nonce # packet.nonce
               THEN [err |-> "Nonce mismatch", state |-> cached.state]
               ELSE open_packet(cached.state, cached.message_key, cached.nonce,
                                packet, associated_data)
       ELSE IF compute_semantic_tag(state.combined_digest, message_index)
                   # header.semantic_tag
       THEN [err |-> "Semantic tag mismatch", state |-> state]
       ELSE IF kem_ct_len(header.kem_ciphertext) < 37
       THEN [err |-> "ciphertext too short", state |-> state]
       ELSE
       LET shared_secret == decapsulate(header.kem_ciphertext, state.local_ratchet_private)
           root_key == mix_root(state.root_key, shared_secret, state.combined_digest)
           mixed == [state EXCEPT
               !.root_key = root_key,
               !.remote_ratchet_public = header.ratchet_pub,
               !.send_chain_key = derive_chain_seed(root_key, state.combined_digest,
                                                    state.send_label),
               !.recv_chain_key = derive_chain_seed(root_key, state.combined_digest,
                                                    state.recv_label)]
           skipped == skip_to(mixed, message_index)
           mat == derive_message_material(skipped.recv_chain_key, skipped.recv_count)
           advanced == [skipped EXCEPT !.recv_chain_key = mat.next_chain]
       IN IF mat.nonce # packet.nonce
          THEN [err |-> "Nonce mismatch", state |-> advanced]
          ELSE open_packet(advanced, mat.message_key, mat.nonce, packet, associated_data)

\* variant: a failed authentication gives back the state as it was
ratchet_decrypt_rollback(state, packet, associated_data) ==
    LET header == packet.header
        message_index == header.count
    IN IF message_index < state.recv_count
       THEN LET cached == recover_skipped_key(state, message_index)
            IN IF ~cached.found
               THEN [err |-> "Message already processed", state |-> cached.state]
               ELSE IF cached.nonce # packet.nonce
               THEN [err |-> "Nonce mismatch", state |-> cached.state]
               ELSE open_packet(cached.state, cached.message_key, cached.nonce,
                                packet, associated_data)
       ELSE IF compute_semantic_tag(state.combined_digest, message_index)
                   # header.semantic_tag
       THEN [err |-> "Semantic tag mismatch", state |-> state]
       ELSE IF kem_ct_len(header.kem_ciphertext) < 37
       THEN [err |-> "ciphertext too short", state |-> state]
       ELSE
       LET shared_secret == decapsulate(header.kem_ciphertext, state.local_ratchet_private)
           root_key == mix_root(state.root_key, shared_secret, state.combined_digest)
           mixed == [state EXCEPT
               !.root_key = root_key,
               !.remote_ratchet_public = header.ratchet_pub,
               !.send_chain_key = derive_chain_seed(root_key, state.combined_digest,
                                                    state.send_label),
               !.recv_chain_key = derive_chain_seed(root_key, state.combined_digest,
                                                    state.recv_label)]
           skipped == skip_to(mixed, message_index)
           mat == derive_message_material(skipped.recv_chain_key, skipped.recv_count)
           advanced == [skipped EXCEPT !.recv_chain_key = mat.next_chain,
                                       !.recv_count = @ + 1]
       IN IF mat.nonce # packet.nonce
          THEN [err |-> "Nonce mismatch", state |-> advanced]
          ELSE LET r == open_packet(advanced, mat.message_key, mat.nonce, packet,
                                    associated_data)
               IN IF r.err = "" THEN r ELSE [err |-> r.err, state |-> state]

\* variant: the KEM secret is mixed into the root before the semantic tag
\* is compared
ratchet_decrypt_eager(state, packet, associated_data) ==
    LET header == packet.header
        message_index == header.count
    IN IF message_index < state.recv_count
       THEN LET cached == recover_skipped_key(state, message_index)
            IN IF ~cached.found
               THEN [err |-> "Message already processed", state |-> cached.state]
               ELSE IF cached.nonce # packet.nonce
               THEN [err |-> "Nonce mismatch", state |-> cached.state]
               ELSE open_packet(cached.state, cached.message_key, cached.nonce,
                                packet, associated_data)
       ELSE IF compute_semantic_tag(state.combined_digest, message_index)
                   # header.semantic_tag
       THEN [err |-> "Semantic tag mismatch",
             state |-> [state EXCEPT
                 !.root_key = mix_root(state.root_key,
                                       decapsulate(header.kem_ciphertext,
                                                   state.local_ratchet_private),
                                       state.combined_digest),
                 !.remote_ratchet_public = header.ratchet_pub]]
       ELSE IF kem_ct_len(header.kem_ciphertext) < 37
       THEN [err |-> "ciphertext too short", state |-> state]
       ELSE
       LET shared_secret == decapsulate(header.kem_ciphertext, state.local_ratchet_private)
           root_key == mix_root(state.root_key, shared_secret, state.combined_digest)
           mixed == [state EXCEPT
               !.root_key = root_key,
               !.remote_ratchet_public = header.ratchet_pub,
               !.send_chain_key = derive_chain_seed(root_key, state.combined_digest,
                                                    state.send_label),
               !.recv_chain_key = derive_chain_seed(root_key, state.combined_digest,
                                                    state.recv_label)]
           skipped == skip_to(mixed, message_index)
           mat == derive_message_material(skipped.recv_chain_key, skipped.recv_count)
           advanced == [skipped EXCEPT !.recv_chain_key = mat.next_chain,
                                       !.recv_count = @ + 1]
       IN IF mat.nonce # packet.nonce
          THEN [err |-> "Nonce mismatch", state |-> advanced]
          ELSE open_packet(advanced, mat.message_key, mat.nonce, packet, associated_data)

ratchet_decrypt(state, packet, associated_data) ==
    LET header == packet.header
        message_index == header.count
    IN IF message_index < state.recv_count
       THEN LET cached == recover_skipped_key(state, message_index)
            IN IF ~cached.found
               THEN [err |-> "Message already processed", state |-> cached.state]
               ELSE IF cached.nonce # packet.nonce
               THEN [err |-> "Nonce mismatch", state |-> cached.state]
               ELSE open_packet(cached.state, cached.message_key, cached.nonce,
                                packet, associated_data)
       ELSE IF compute_semantic_tag(state.combined_digest, message_index)
                   # header.semantic_tag
       THEN [err |-> "Semantic tag mismatch", state |-> state]
       ELSE IF kem_ct_len(header.kem_ciphertext) < 37
       THEN [err |-> "ciphertext too short", state |-> state]
       ELSE
       LET shared_secret == decapsulate(header.kem_ciphertext, state.local_ratchet_private)
           root_key == mix_root(state.root_key, shared_secret, state.combined_digest)
           mixed == [state EXCEPT
               !.root_key = root_key,
               !.remote_ratchet_public = header.ratchet_pub,
               !.send_chain_key = derive_chain_seed(root_key, state.combined_digest,
                                                    state.send_label),
               !.recv_chain_key = derive_chain_seed(root_key, state.combined_digest,
                                                    state.recv_label)]
           skipped == skip_to(mixed, message_index)
           mat == derive_message_material(skipped.recv_chain_key, skipped.recv_count)
           advanced == [skipped EXCEPT !.recv_chain_key = mat.next_chain,
                                       !.recv_count = @ + 1]
       IN IF mat.nonce # packet.nonce
          THEN [err |-> "Nonce mismatch", state |-> advanced]
          ELSE open_packet(advanced, mat.message_key, mat.nonce, packet, associated_data)

-----------------------------------------------------------------------------
(* RatchetSession messaging *)

\* variant: readiness is not checked, the missing state raises on access
session_encrypt_unchecked(s, session, plaintext, associated_data) ==
    IF session.state = <<>> THEN [err |-> "AttributeError", session |-> session]
    ELSE LET r == ratchet_encrypt(session.state[1], plaintext, associated_data,
                                  random_bytes(s, session.draws),
                                  random_bytes(s, session.draws + 1))
         IN IF r.err # "" THEN [err |-> r.err, session |-> session]
            ELSE [err |-> "", packet |-> r.packet,
                  session |-> [session EXCEPT !.state = <<r.state>>, !.draws = @ + 2]]

session_encrypt(s, session, plaintext, associated_data) ==
    IF ~is_ready(session) THEN [err |-> "Session not ready", session |-> session]
    ELSE LET r == ratchet_encrypt(session.state[1], plaintext, associated_data,
                                  random_bytes(s, session.draws),
                                  random_bytes(s, session.draws + 1))
         IN IF r.err # "" THEN [err |-> r.err, session |-> session]
            ELSE [err |-> "", packet |-> r.packet,
                  session |-> [session EXCEPT !.state = <<r.state>>, !.draws = @ + 2]]

\* variant: a successful decrypt works on a copy of the state
session_decrypt_copy(session, packet, associated_data) ==
    IF ~is_ready(session) THEN [err |-> "Session not ready", session |-> session]
    ELSE LET r == ratchet_decrypt(session.state[1], packet, associated_data)
         IN IF r.err # ""
            THEN [err |-> r.err, session |-> [session EXCEPT !.state = <<r.state>>]]
            ELSE [err |-> "", plaintext |-> r.plaintext, session |-> session]

\* variant: a decrypt that raises closes the session
session_decrypt_closing(session, packet, associated_data) ==
    IF ~is_ready(session) THEN [err |-> "Session not ready", session |-> session]
    ELSE LET r == ratchet_decrypt(session.state[1], packet, associated_data)
         IN IF r.err # ""
            THEN [err |-> r.err,
                  session |-> [session EXCEPT !.state = <<r.state>>, !.ready = FALSE]]
            ELSE [err |-> "", plaintext |-> r.plaintext,
                  session |-> [session EXCEPT !.state = <<r.state>>]]

session_decrypt(session, packet, associated_data) ==
    IF ~is_ready(session) THEN [err |-> "Session not ready", session |-> session]
    ELSE LET r == ratchet_decrypt(session.state[1], packet, associated_data)
         IN IF r.err # ""
            THEN [err |-> r.err, session |-> [session EXCEPT !.state = <<r.state>>]]
            ELSE [err |-> "", plaintext |-> r.plaintext,
                  session |-> [session EXCEPT !.state = <<r.state>>]]

\* the packets session s has decrypted successfully so far
Decrypted(s) == {k \in 1..Len(sent) : <<"decrypt", s, k>> \in okcalls}

Encrypt(s, plaintext, associated_data) ==
    LET r == session_encrypt(s, sess[s], plaintext, associated_data)
    IN /\ is_ready(sess[s]) => Len(sent) < cap
       /\ IF r.err = ""
          THEN /\ sess' = [sess EXCEPT ![s] = r.session]
               /\ sent' = Append(sent, [pkt |-> r.packet, by |-> s,
                                        pt |-> plaintext, ad |-> associated_data,
                                        after |-> Decrypted(s)])
               /\ last' = Call("encrypt", s, Len(sent) + 1, associated_data)
               /\ flow' = FlowEncrypt(s)
          ELSE /\ sess' = [sess EXCEPT ![s] = r.session]
               /\ last' = Raised("encrypt", s, 0, associated_data, r.err)
               /\ UNCHANGED <<sent, flow>>
       /\ UNCHANGED <<reqs, resps, blobs, okcalls, cap>>

\* Packet k is handed to session s; a session is never handed a packet it
\* produced itself.
Decrypt(s, k, associated_data) ==
    LET r == session_decrypt(sess[s], sent[k].pkt, associated_data)
    IN /\ sent[k].by # s
       /\ sess' = [sess EXCEPT ![s] = r.session]
       /\ last' = [ (IF r.err = ""
                    THEN [Call("decrypt", s, k, associated_data) EXCEPT !.pt = r.plaintext]
                    ELSE Raised("decrypt", s, k, associated_data, r.err))
                   EXCEPT !.again = <<"decrypt", s, k>> \in okcalls ]
       /\ okcalls' = IF r.err = "" THEN okcalls \cup {<<"decrypt", s, k>>} ELSE okcalls
       /\ flow' = IF is_ready(sess[s]) THEN FlowDecrypt(s, k, associated_data) ELSE flow
       /\ UNCHANGED <<reqs, resps, sent, blobs, cap>>

\* Packets altered in transit (tests/utils.py tamper_packet)
Tampers == {"flip", "shift", "count_next", "count_far", "ratchet_pub",
            "kem_pk", "kem_eph", "semantic_tag"}
WrongTag == <<"wrong-semantic-tag">>
FarCount == 999
AlteredKey == <<"pk", <<"wrong-pub">>>>
AlteredEph == <<"rnd", "wrong-kem", 0>>
Front(seq) == SubSeq(seq, 1, Len(seq) - 1)

tamper_packet(packet, how) ==
    LET ct == packet.ciphertext
        kem == packet.header.kem_ciphertext
    IN CASE how = "flip" ->
              [packet EXCEPT !.ciphertext =
                  Front(ct) \o <<xor_byte(ct[Len(ct)], <<"bit0">>)>>]
         [] how = "shift" -> [packet EXCEPT !.ciphertext = Front(ct)]
         [] how = "count_next" -> [packet EXCEPT !.header.count = @ + 1]
         [] how = "count_far" -> [packet EXCEPT !.header.count = FarCount]
         [] how = "ratchet_pub" -> [packet EXCEPT !.header.ratchet_pub = AlteredKey]
         [] how = "kem_pk" ->
              [packet EXCEPT !.header.kem_ciphertext = <<kem[1], kem[2], AlteredKey>>]
         [] how = "kem_eph" ->
              [packet EXCEPT !.header.kem_ciphertext = <<kem[1], AlteredEph, kem[3]>>]
         [] how = "semantic_tag" -> [packet EXCEPT !.header.semantic_tag = WrongTag]

\* the associated data handed over with an altered packet: the one of the
\* encrypt call, except that "shift" moves the last ciphertext byte to it
tamper_ad(packet, associated_data, how) ==
    IF how = "shift"
    THEN <<packet.ciphertext[Len(packet.ciphertext)]>> \o associated_data
    ELSE associated_data

\* Packet k, altered in the way `how`, is handed to session s
DecryptTampered(s, k, how) ==
    LET ad == tamper_ad(sent[k].pkt, sent[k].ad, how)
        r == session_decrypt(sess[s], tamper_packet(sent[k].pkt, how), ad)
    IN /\ sent[k].by # s
       /\ how \in {"flip", "shift"} => Len(sent[k].pkt.ciphertext) > 0
       /\ sess' = [sess EXCEPT ![s] = r.session]
       /\ last' = [ (IF r.err = ""
                    THEN [Call("decrypt", s, k, ad) EXCEPT !.pt = r.plaintext]
                    ELSE Raised("decrypt", s, k, ad, r.err))
                   EXCEPT !.tamper = how ]
       /\ flow' = IF is_ready(sess[s]) /\ s \in Peers THEN Broken ELSE flow
       /\ UNCHANGED <<reqs, resps, sent, blobs, okcalls, cap>>

-----------------------------------------------------------------------------
(* Persistence: export_state / from_serialized *)

hex(b) == <<"hex", b>>
fromhex(h) == h[2]
decode(label) == <<"str", label>>
\* variant: the label is kept as text
encode_text(text) == text
encode(text) == text[2]

\* [(idx, key.hex(), nonce.hex()) for idx, (key, nonce) in sorted(items)]
RECURSIVE sorted_items(_)
sorted_items(keys) ==
    IF DOMAIN keys = {} THEN <<>>
    ELSE LET idx == MinOf(DOMAIN keys)
         IN <<<<idx, hex(keys[idx][1]), hex(keys[idx][2])>>>>
            \o sorted_items([i \in DOMAIN keys \ {idx} |-> keys[i]])

\* ord("{"), the first byte json.dumps gives for a dict
OpenBrace == 123
\* blob[0] of an exported blob
first_byte(blob) == CASE blob[1] = "json" -> OpenBrace

export_state(session) ==
    IF ~is_ready(session) THEN [err |-> "Session not ready"]
    ELSE LET state == session.state[1]
         IN [err |-> "",
             blob |-> <<"json",
               [root_key              |-> hex(state.root_key),
                send_chain_key        |-> hex(state.send_chain_key),
                recv_chain_key        |-> hex(state.recv_chain_key),
                send_label            |-> decode(state.send_label),
                recv_label            |-> decode(state.recv_label),
                send_count            |-> state.send_count,
                recv_count            |-> state.recv_count,
                local_ratchet_private |-> hex(state.local_ratchet_private),
                local_ratchet_public  |-> hex(state.local_ratchet_public),
                remote_ratchet_public |-> IF state.remote_ratchet_public = None
                                          THEN None
                                          ELSE hex(state.remote_ratchet_public),
                combined_digest       |-> hex(state.combined_digest),
                local_digest          |-> hex(state.local_digest),
                remote_digest         |-> IF state.remote_digest = None THEN None
                                          ELSE hex(state.remote_digest),
                skipped_keys          |-> sorted_items(state.skipped_message_keys),
                max_skip              |-> state.max_skip,
                semantic_hint         |-> hex(session.semantic_hint),
                is_initiator          |-> session.is_initiator]>>]

from_serialized(blob) ==
    LET payload == blob[2]
        items == payload.skipped_keys
        state ==
          [root_key              |-> fromhex(payload.root_key),
           send_chain_key        |-> fromhex(payload.send_chain_key),
           recv_chain_key        |-> fromhex(payload.recv_chain_key),
           send_label            |-> encode(payload.send_label),
           recv_label            |-> encode(payload.recv_label),
           send_count            |-> payload.send_count,
           recv_count            |-> payload.recv_count,
           local_ratchet_private |-> fromhex(payload.local_ratchet_private),
           local_ratchet_public  |-> fromhex(payload.local_ratchet_public),
           remote_ratchet_public |-> IF payload.remote_ratchet_public = None THEN None
                                     ELSE fromhex(payload.remote_ratchet_public),
           combined_digest       |-> fromhex(payload.combined_digest),
           local_digest          |-> fromhex(payload.local_digest),
           remote_digest         |-> IF payload.remote_digest = None THEN None
                                     ELSE fromhex(payload.remote_digest),
           skipped_message_keys  |->
               [i \in {items[n][1] : n \in DOMAIN items} |->
                   LET n == CHOOSE n \in DOMAIN items : items[n][1] = i
                   IN <<fromhex(items[n][2]), fromhex(items[n][3])>>],
           max_skip              |-> payload.max_skip]
    IN [RatchetSession(payload.is_initiator, fromhex(payload.semantic_hint),
                       payload.max_skip)
        EXCEPT !.state = <<state>>,
               !.local_digest = state.local_digest,
               !.remote_digest = state.remote_digest,
               !.handshake_id = None,
               !.ready = TRUE]

ExportState(s) ==
    LET r == export_state(sess[s])
    IN /\ IF r.err = ""
          THEN /\ Len(blobs) < MaxExport
               /\ blobs' = Append(blobs, [blob |-> r.blob, of |-> s, at |-> Len(sent)])
               /\ last' = Call("export_state", s, Len(blobs) + 1, <<>>)
          ELSE /\ last' = Raised("export_state", s, 0, <<>>, r.err)
               /\ UNCHANGED blobs
       /\ UNCHANGED <<sess, reqs, resps, sent, okcalls, flow, cap>>

Restored == DOMAIN sess \ {"A", "B", "B2"}

FromSerialized(k) ==
    /\ Cardinality(Restored) < MaxRestore
    /\ LET name == RestoredNames[Cardinality(Restored) + 1]
       IN /\ sess' = (name :> from_serialized(blobs[k].blob)) @@ sess
          /\ last' = Call("from_serialized", name, k, <<>>)
          /\ okcalls' = okcalls \cup {<<"from_serialized", name, k>>}
    /\ UNCHANGED <<reqs, resps, sent, blobs, flow, cap>>

-----------------------------------------------------------------------------
(* Specifications *)

\* the (plaintext, associated_data) arguments of encrypt
Inputs == { <<<<>>, <<Cell(9)>>>>, <<<<Cell(1), Cell(2)>>, <<>>>> }

\* Sessions as constructed by create_initiator / create_responder
Init ==
    /\ \E h \in HintPairs \cup SameHints :
           sess = ( "A"  :> RatchetSession(TRUE, h[1], MAX_SKIP_DEFAULT) @@
                    "B"  :> RatchetSession(FALSE, h[2], MAX_SKIP_DEFAULT) @@
                    "B2" :> RatchetSession(FALSE, h[2], MAX_SKIP_DEFAULT) )
    /\ reqs = <<>>
    /\ resps = <<>>
    /\ sent = <<>>
    /\ blobs = <<>>
    /\ last = NoCall
    /\ okcalls = {}
    /\ flow = Broken
    /\ cap = MaxPacketsHS

Next ==
    \/ \E s \in DOMAIN sess : CreateHandshakeRequest(s)
    \/ \E s \in DOMAIN sess, k \in 1..Len(reqs) : AcceptHandshake(s, k)
    \/ \E s \in DOMAIN sess, k \in 1..Len(resps) : FinalizeHandshake(s, k)
    \/ \E s \in DOMAIN sess, k \in 1..Len(resps) : FinalizeTampered(s, k)
    \/ \E s \in DOMAIN sess, i \in Inputs : Encrypt(s, i[1], i[2])
    \/ \E s \in DOMAIN sess, k \in 1..Len(sent), a \in ADs : Decrypt(s, k, a)
    \/ \E s \in DOMAIN sess : ExportState(s)

Spec == Init /\ [][Next]_vars

\* Two peers right after create_handshake_request -> accept_handshake ->
\* finalize_handshake (tests/utils.py create_test_sessions)
create_test_sessions(ha, hb, ms) ==
    LET req == create_handshake_request("A", RatchetSession(TRUE, ha, ms))
        acc == accept_handshake("B", RatchetSession(FALSE, hb, ms), req.request)
        fin == finalize_handshake(req.session, acc.response)
    IN [alice |-> fin.session, bob |-> acc.session,
        request |-> req.request, response |-> acc.response]

InitReady(packets, skips) ==
    /\ \E h \in HintPairs, ms \in skips :
           LET hs == create_test_sessions(h[1], h[2], ms)
           IN /\ sess = ("A" :> hs.alice @@ "B" :> hs.bob)
              /\ reqs = << [msg |-> hs.request, by |-> "A"] >>
              /\ resps = << [msg |-> hs.response, by |-> "B", req |-> 1] >>
    /\ sent = <<>>
    /\ blobs = <<>>
    /\ last = NoCall
    /\ okcalls = {<<"accept_handshake", "B", 1>>, <<"finalize_handshake", "A", 1>>}
    /\ flow = Idle
    /\ cap = packets

InitMsg == InitReady(MaxPackets, 1..MaxSkipArg)

NextMsg ==
    \/ \E s \in DOMAIN sess, i \in Inputs : Encrypt(s, i[1], i[2])
    \/ \E s \in DOMAIN sess, k \in 1..Len(sent), a \in ADs : Decrypt(s, k, a)

SpecMsg == InitMsg /\ [][NextMsg]_vars

NextSnap ==
    \/ NextMsg
    \/ \E s \in DOMAIN sess : ExportState(s)
    \/ \E k \in 1..Len(blobs) : FromSerialized(k)

InitSnap == InitReady(MaxPacketsSnap, {MAX_SKIP_DEFAULT})

SpecSnap == InitSnap /\ [][NextSnap]_vars
\* Runs from a completed handshake in which packets are altered in transit
InitTamper == InitReady(MaxPacketsTamper, {MAX_SKIP_DEFAULT})
NextTamper ==
    \/ NextMsg
    \/ \E s \in DOMAIN sess, k \in 1..Len(sent), how \in Tampers :
           DecryptTampered(s, k, how)
SpecTamper == InitTamper /\ [][NextTamper]_vars

\* Runs from a completed handshake in which "A" sends and "B", or a session
\* restored from an export of "B", receives in any order
CacheInput == <<<<Cell(1), Cell(2)>>, <<>>>>
InitCache == InitReady(MaxPacketsCache, 1..MaxSkipArg)
NextCache ==
    \/ Encrypt("A", CacheInput[1], CacheInput[2])
    \/ \E s \in DOMAIN sess \ {"A"}, k \in 1..Len(sent) : Decrypt(s, k, sent[k].ad)
    \/ ExportState("B")
    \/ \E k \in 1..Len(blobs) : FromSerialized(k)
SpecCache == InitCache /\ [][NextCache]_vars

\* Handshakes in which a responder may be handed an altered request
NextForge ==
    \/ \E s \in DOMAIN sess : CreateHandshakeRequest(s)
    \/ \E s \in DOMAIN sess, k \in 1..Len(reqs) : AcceptHandshake(s, k)
    \/ \E s \in DOMAIN sess, k \in 1..Len(reqs), how \in RequestTampers : AcceptTampered(s, k, how)
    \/ \E s \in DOMAIN sess, k \in 1..Len(resps) : FinalizeHandshake(s, k)

SpecForge == Init /\ [][NextForge]_vars

-----------------------------------------------------------------------------
(* Properties *)

\* the most recent call handed a packet of one peer to the other peer
Delivered == last.op = "decrypt" /\ last.s \in Peers
Returned == last.ok /\ last.pt = sent[last.k].pt
\* all packets so far come from the peer of the session called last, and
\* all of them were produced before the first one was handed over
OneBurst ==
    /\ \A k \in 1..Len(sent) : sent[k].by \in Peers \ {last.s}
    /\ flow.backlog = Len(sent)

\* C1: after a completed handshake, the packet one peer's encrypt(p, a)
\* returns, handed as the next packet to the other peer's decrypt with the
\* same a, yields exactly p; in both directions, for every p and a.  Every
\* packet is handed over before the next one is produced (backlog <= 1).
C1_RoundTrip ==
    (Delivered /\ flow.clean /\ flow.inorder /\ flow.backlog <= 1) => Returned

\* both directions in one run, the second packet with an empty plaintext
C1_Witness ==
    /\ Delivered /\ flow.clean /\ flow.inorder /\ flow.backlog = 1
    /\ last.s = "A" /\ last.k = 2 /\ sent[1].by = "A"
    /\ sent[2].pt = <<>> /\ sent[2].ad # <<>> /\ Returned

\* C2: when one peer encrypts N >= 1 messages in a row and the other peer
\* then decrypts the N packets in the order they were produced, every
\* decrypt succeeds and returns the matching plaintext.
C2_InOrder ==
    (Delivered /\ flow.clean /\ flow.inorder /\ OneBurst) => Returned

C2_Witness ==
    /\ Delivered /\ flow.clean /\ flow.inorder /\ OneBurst
    /\ Len(sent) = MaxPackets /\ last.k = MaxPackets /\ Returned

\* C3: once a session has decrypted a packet successfully, every later
\* decrypt of that packet by the same session fails with 'Message already
\* processed' and returns no plaintext.
C3_Replay ==
    (last.op = "decrypt" /\ last.again) =>
        (~last.ok /\ last.err = "Message already processed")

\* the replay comes after another packet was processed in between
C3_Witness ==
    /\ last.op = "decrypt" /\ last.again /\ ~last.ok
    /\ \E k \in 1..Len(sent) : k > last.k /\ <<"decrypt", last.s, k>> \in okcalls

\* C4: when one peer encrypts a window of at most max_skip messages and the
\* other peer decrypts each packet of the window once, in any order, every
\* decrypt succeeds and returns the matching plaintext.
C4_OutOfOrder ==
    (Delivered /\ flow.clean /\ OneBurst
        /\ Len(sent) <= sess[last.s].state[1].max_skip) => Returned

\* packet m was encrypted by the peer of the session exported in blob b,
\* after that peer had decrypted a packet the exported session sent after
\* the export
PostPulse(b, m) ==
    /\ {blobs[b].of, sent[m].by} = Peers
    /\ \E j \in sent[m].after : sent[j].by = blobs[b].of /\ j > blobs[b].at
\* the session called last was restored from blob b
Snapshot(b) == <<"from_serialized", last.s, b>> \in okcalls
ForwardSecrecy(errors) ==
    \A b \in 1..Len(blobs) :
        /\ (Delivered /\ flow.clean /\ flow.inorder /\ blobs[b].of = last.s
              /\ PostPulse(b, last.k)) => Returned
        /\ (last.op = "decrypt" /\ Snapshot(b) /\ PostPulse(b, last.k)) =>
              (~last.ok /\ last.err \in errors)

Agreed(i, r) ==
    /\ i.root_key = r.root_key
    /\ i.combined_digest = r.combined_digest
    /\ i.send_chain_key = r.recv_chain_key
    /\ i.recv_chain_key = r.send_chain_key
\* the ratchet state has not sent or received anything since bootstrap
Untouched(r) == r.send_count = 0 /\ r.recv_count = 0
Finalized == last.op = "finalize_handshake" /\ last.ok

\* C6: once create_handshake_request, accept_handshake and
\* finalize_handshake have succeeded, the initiator and the responder whose
\* response it finalized hold equal root_key and combined_digest, and each
\* one's send chain key equals the other's receive chain key; also when
\* both semantic hints are identical.  The responder is compared as
\* accept_handshake left it, before it sends or receives a packet.
C6_Agreement ==
    (Finalized /\ Untouched(sess[resps[last.k].by].state[1])) =>
        Agreed(sess[last.s].state[1], sess[resps[last.k].by].state[1])

\* agreement with identical hints
C6_Witness ==
    /\ Finalized /\ Untouched(sess[resps[last.k].by].state[1])
    /\ sess[last.s].semantic_hint = sess[resps[last.k].by].semantic_hint
    /\ Agreed(sess[last.s].state[1], sess[resps[last.k].by].state[1])

\* C7: a handshake request that one responder has accepted is rejected by
\* every other responder session: the call fails and that responder does
\* not become ready.
C7_HandshakeReplay ==
    (last.op = "accept_handshake"
        /\ \E r \in DOMAIN sess \ {last.s} :
               <<"accept_handshake", r, last.k>> \in okcalls) =>
        (~last.ok /\ ~is_ready(sess[last.s]))

\* the most recent call is one the session's role forbids
RoleViolation ==
    \/ last.op \in {"create_handshake_request", "finalize_handshake"}
          /\ ~sess[last.s].is_initiator
    \/ last.op = "accept_handshake" /\ sess[last.s].is_initiator
RoleError ==
    IF last.op = "create_handshake_request"
    THEN "Only initiators can create handshake requests"
    ELSE IF last.op = "finalize_handshake"
    THEN "Responder cannot finalize handshake"
    ELSE "Initiator cannot accept handshake"

\* C8: a responder's create_handshake_request and finalize_handshake and
\* an initiator's accept_handshake fail in every state of the session, with
\* the error of the role check, and leave all sessions and message logs
\* unchanged.
C8_RoleEnforcement ==
    [][ RoleViolation' =>
            (~last'.ok /\ last'.err = RoleError'
                /\ UNCHANGED <<sess, reqs, resps, sent, blobs>>) ]_vars

\* a ready responder is refused finalize_handshake
C8_Witness ==
    /\ RoleViolation /\ ~last.ok /\ last.op = "finalize_handshake"
    /\ is_ready(sess[last.s])

\* the handshake of session s has completed: accept_handshake returned for
\* a responder, finalize_handshake for an initiator
Completed(s) ==
    \E k \in 1..(Len(reqs) + Len(resps)) :
        <<IF sess[s].is_initiator THEN "finalize_handshake" ELSE "accept_handshake",
          s, k>> \in okcalls

\* C9: is_ready is false for a new session and for an initiator with a
\* pending request, and true exactly from the responder's successful
\* accept_handshake or the initiator's successful finalize_handshake on.
C9_Readiness == \A s \in DOMAIN sess : is_ready(sess[s]) <=> Completed(s)

\* the responder is ready while the initiator is still pending and a second
\* responder is new
C9_Witness ==
    /\ sess["A"].pending # <<>> /\ ~is_ready(sess["A"])
    /\ is_ready(sess["B"]) /\ ~is_ready(sess["B2"])
    /\ C9_Readiness

\* C10: encrypt, decrypt and export_state on a session that is not ready
\* fail with 'Session not ready' and change no session, packet or blob.
C10_NotReady ==
    [][ (last'.op \in {"encrypt", "decrypt", "export_state"}
            /\ ~is_ready(sess[last'.s])) =>
            (~last'.ok /\ last'.err = "Session not ready"
                /\ UNCHANGED <<sess, reqs, resps, sent, blobs>>) ]_vars

\* a pending initiator is handed a packet
C10_Witness ==
    /\ last.op = "decrypt" /\ ~last.ok /\ last.err = "Session not ready"
    /\ sess[last.s].pending # <<>> /\ last.k \in 1..Len(sent)

HandshakeOps == {"create_handshake_request", "accept_handshake", "finalize_handshake"}
\* the step is a handshake call that must fail because the session has a
\* pending request or is ready; on a ready session the error is 'already
\* completed', unless roles is set and the role check refuses the call
OnceOnly(roles) ==
    last'.op \in HandshakeOps =>
        /\ (last'.op = "create_handshake_request" /\ sess[last'.s].pending # <<>>) =>
               (~last'.ok /\ last'.err = "Handshake already pending"
                   /\ UNCHANGED sess)
        /\ is_ready(sess[last'.s]) =>
               (~last'.ok /\ UNCHANGED sess
                   /\ last'.err = IF roles /\ RoleViolation' THEN RoleError'
                                   ELSE "Handshake already completed")

\* C11 as stated: create_handshake_request fails with 'already pending'
\* while a request is pending, and on a ready session all three handshake
\* operations fail with 'already completed' and leave the session as it is.
C11_AsStated == [][OnceOnly(FALSE)]_vars

\* C11: create_handshake_request fails with 'already pending' while a
\* request is pending, and on a ready session all three handshake
\* operations fail and leave the session as it is: with 'already
\* completed' for the operations of the session's role, with the error of
\* the role check for the others.
C11_OnceOnly == [][OnceOnly(TRUE)]_vars

\* a ready initiator is refused a second finalize_handshake
C11_Witness ==
    /\ last.op = "finalize_handshake" /\ last.tamper = "none"
    /\ is_ready(sess[last.s]) /\ ~last.ok
    /\ last.err = "Handshake already completed"

\* C12: finalize_handshake with a response whose handshake_id differs from
\* the one of the pending request fails with 'Handshake identifier
\* mismatch' and leaves the initiator not ready with its pending handshake;
\* finalize_handshake with the matching response succeeds while the
\* request is pending.
C12_IdMismatch ==
    [][ (last'.op = "finalize_handshake" /\ sess[last'.s].pending # <<>>) =>
          IF last'.tamper = "handshake_id"
          THEN /\ ~last'.ok /\ last'.err = "Handshake identifier mismatch"
               /\ UNCHANGED sess /\ ~is_ready(sess'[last'.s])
          ELSE last'.ok /\ is_ready(sess'[last'.s]) ]_vars

\* the initiator was refused a response with another id and is still pending
C12_Witness ==
    /\ last.op = "finalize_handshake" /\ last.tamper = "handshake_id"
    /\ last.err = "Handshake identifier mismatch"
    /\ sess[last.s].pending # <<>> /\ ~is_ready(sess[last.s])

\* the indices held in the skipped-key cache of a ready session
Cached(session) == DOMAIN session.state[1].skipped_message_keys

\* C13: in every state reached after the handshake by encrypt, decrypt
\* (successful or failing), export_state and from_serialized, the skipped
\* key cache of every session holds at most max_skip entries.
C13_CacheBound ==
    \A s \in DOMAIN sess :
        is_ready(sess[s]) => Cardinality(Cached(sess[s])) <= sess[s].state[1].max_skip

\* a restored session holds a full cache from which an index was evicted
C13_Witness ==
    /\ C13_CacheBound
    /\ \E s \in Restored :
           /\ Cardinality(Cached(sess[s])) = sess[s].state[1].max_skip
           /\ sess[s].state[1].recv_count > sess[s].state[1].max_skip + 1

\* the n largest elements of S
Largest(S, n) == {x \in S : Cardinality({y \in S : y > x}) < n}
\* the step hands packet last'.k, unaltered, to a ready session
Handed == last'.op = "decrypt" /\ last'.tamper = "none" /\ is_ready(sess[last'.s])
HandedIndex == sent[last'.k].pkt.header.count

\* C14: a decrypt that skips more than max_skip indices leaves the max_skip
\* largest skipped indices in the cache; afterwards a late packet for an
\* evicted index fails with 'Message already processed' and a late packet
\* for a retained index decrypts to its plaintext.
C14_Overflow ==
    [][ Handed =>
          LET st == sess[last'.s].state[1]
          IN IF HandedIndex >= st.recv_count
             THEN Cached(sess'[last'.s]) =
                    Largest(Cached(sess[last'.s]) \cup (st.recv_count..(HandedIndex - 1)),
                            st.max_skip)
             ELSE IF HandedIndex \in Cached(sess[last'.s]) THEN Returned'
             ELSE ~last'.ok /\ last'.err = "Message already processed" ]_vars

\* the part of C14 about eviction and evicted indices alone
EvictionOrder ==
    [][ Handed =>
          LET st == sess[last'.s].state[1]
          IN IF HandedIndex >= st.recv_count
             THEN Cached(sess'[last'.s]) =
                    Largest(Cached(sess[last'.s]) \cup (st.recv_count..(HandedIndex - 1)),
                            st.max_skip)
             ELSE HandedIndex \notin Cached(sess[last'.s]) =>
                    (~last'.ok /\ last'.err = "Message already processed") ]_vars

\* the step hands packet last'.k to a session with an altered ciphertext or
\* with associated data other than those of the encrypt call
Modified == last'.tamper \in {"flip", "shift"} \/ last'.ad # sent[last'.k].ad
\* the session would have accepted the packet as it was sent
Genuine == session_decrypt(sess[last'.s], sent[last'.k].pkt, sent[last'.k].ad).err = ""

\* C15: decrypt returns a plaintext only if the ciphertext and the associated
\* data are exactly those of the encrypt call; a modified ciphertext or a
\* different associated data makes decrypt fail, with 'Authentication tag
\* mismatch' when the packet would otherwise have been accepted.
C15_Authenticity ==
    [][ (last'.op = "decrypt" /\ Modified) =>
            /\ ~last'.ok
            /\ Genuine => last'.err = "Authentication tag mismatch" ]_vars

\* the alterations of header.count, semantic_tag left as it was
CountTampers == {"count_next", "count_far"}
\* header.count of the altered packet handed over by the step
AlteredCount == tamper_packet(sent[last'.k].pkt, last'.tamper).header.count

\* C16: a genuine packet whose header.count was changed to another index
\* that is not yet received (count >= recv_count), semantic_tag unchanged,
\* makes decrypt fail with 'Semantic tag mismatch'.
C16_CountTamper ==
    [][ (/\ last'.op = "decrypt"
         /\ last'.tamper \in CountTampers
         /\ is_ready(sess[last'.s])
         /\ AlteredCount >= sess[last'.s].state[1].recv_count) =>
            (~last'.ok /\ last'.err = "Semantic tag mismatch") ]_vars

\* both alterations were rejected: the far one, and the next index on a
\* session that has not received it
C16_Witness ==
    /\ last.op = "decrypt"
    /\ last.tamper \in CountTampers
    /\ last.err = "Semantic tag mismatch"
    /\ tamper_packet(sent[last.k].pkt, last.tamper).header.count
           >= sess[last.s].state[1].recv_count
    /\ sess[last.s].state[1].recv_count > 0

\* the alterations of header.ratchet_pub and header.kem_ciphertext
HeaderTampers == {"ratchet_pub", "kem_pk", "kem_eph"}

\* C17: a packet whose header.ratchet_pub or header.kem_ciphertext was
\* altered after encrypt, ciphertext and associated data unchanged, is never
\* accepted by decrypt.
C17_HeaderBound ==
    (last.op = "decrypt" /\ last.tamper \in HeaderTampers) => ~last.ok

\* the alteration of the encapsulated secret is the one that is rejected
EphRejected ==
    (last.op = "decrypt" /\ last.tamper = "kem_eph") => ~last.ok

\* from_serialized(export_state(session))
RoundTrip(session) == from_serialized(export_state(session).blob)

RestoredFrom(s) == CHOOSE k \in DOMAIN blobs : <<"from_serialized", s, k>> \in okcalls
\* every index below recv_count of the restored session s was decrypted, by
\* the exporting session before the export and by s after it
InSequence(s) ==
    LET b == blobs[RestoredFrom(s)]
    IN \A k \in DOMAIN sent :
          sent[k].pkt.header.count < sess[s].state[1].recv_count =>
             <<"decrypt",
               IF sent[k].pkt.header.count < b.blob[2].recv_count THEN b.of ELSE s,
               k>> \in okcalls
\* restored sessions are ready, decrypt the next packet in sequence, and a
\* decrypt on one session leaves every other session as it was;
\* with late = TRUE also: late packets for cached indices are decrypted
Resume(late) ==
    /\ \A s \in Restored' : is_ready(sess'[s])
    /\ (Handed /\ Restored # {}) =>
          /\ \A o \in DOMAIN sess \ {last'.s} : sess'[o] = sess[o]
          /\ last'.s \in Restored =>
                /\ (HandedIndex = sess[last'.s].state[1].recv_count
                       /\ InSequence(last'.s)) => Returned'
                /\ (late /\ HandedIndex \in Cached(sess[last'.s])) => Returned'

\* C19: a session restored by from_serialized is ready, decrypts the peer's
\* next valid packet and late packets for indices held in its skipped
\* cache, and the original and the restored copy do not affect each other.
C19_Resume == [][Resume(TRUE)]_vars

\* C19 without the late packets
ResumeNext == [][Resume(FALSE)]_vars

\* a restored session and its original both returned the same next packet
BothReturned ==
    /\ last.op = "decrypt"
    /\ last.s \in Restored
    /\ Returned
    /\ <<"decrypt", blobs[RestoredFrom(last.s)].of, last.k>> \in okcalls

\* C20: export_state with default arguments produces the binary encoding,
\* whose first byte is never 0x7B.
C20_Formats ==
    \A k \in DOMAIN blobs : first_byte(blobs[k].blob) # OpenBrace

-----------------------------------------------------------------------------
(* Packet codec: pack_packet / unpack_packet, wire format big-endian        *)
(*   u32 version | u64 count | u16 len, ratchet_pub | u32 len, kem_ct       *)
(*   | 16 bytes semantic_tag | u32 len, ciphertext                          *)

MAX_RATCHET_PUB_LEN == 8192
MAX_KEM_CT_LEN == 16384
MAX_CIPHERTEXT_LEN == 16777216
SEMANTIC_TAG_LEN == 16
WIRE_VERSION == 1

\* n as `width` bytes, most significant first
RECURSIVE be(_, _)
be(n, width) ==
    IF width = 0 THEN <<>> ELSE be(n \div 256, width - 1) \o <<n % 256>>

\* the number a big-endian byte string stands for
RECURSIVE from_be(_)
from_be(bytes) ==
    IF bytes = <<>> THEN 0
    ELSE 256 * from_be(Front(bytes)) + bytes[Len(bytes)]

\* variant: the length of kem_ct is written as u16
pack_packet_u16(packet) ==
    LET h == packet.header
    IN IF h.version # WIRE_VERSION THEN [err |-> "UnsupportedVersion"]
       ELSE IF \/ Len(h.ratchet_pub) > MAX_RATCHET_PUB_LEN
               \/ Len(h.kem_ciphertext) > MAX_KEM_CT_LEN
               \/ Len(h.semantic_tag) # SEMANTIC_TAG_LEN
               \/ Len(packet.ciphertext) > MAX_CIPHERTEXT_LEN
       THEN [err |-> "MalformedPacket"]
       ELSE [err |-> "",
             data |-> be(h.version, 4) \o be(h.count, 8)
                      \o be(Len(h.ratchet_pub), 2) \o h.ratchet_pub
                      \o be(Len(h.kem_ciphertext), 2) \o h.kem_ciphertext
                      \o h.semantic_tag
                      \o be(Len(packet.ciphertext), 4) \o packet.ciphertext]

pack_packet(packet) ==
    LET h == packet.header
    IN IF h.version # WIRE_VERSION THEN [err |-> "UnsupportedVersion"]
       ELSE IF \/ Len(h.ratchet_pub) > MAX_RATCHET_PUB_LEN
               \/ Len(h.kem_ciphertext) > MAX_KEM_CT_LEN
               \/ Len(h.semantic_tag) # SEMANTIC_TAG_LEN
               \/ Len(packet.ciphertext) > MAX_CIPHERTEXT_LEN
       THEN [err |-> "MalformedPacket"]
       ELSE [err |-> "",
             data |-> be(h.version, 4) \o be(h.count, 8)
                      \o be(Len(h.ratchet_pub), 2) \o h.ratchet_pub
                      \o be(Len(h.kem_ciphertext), 4) \o h.kem_ciphertext
                      \o h.semantic_tag
                      \o be(Len(packet.ciphertext), 4) \o packet.ciphertext]

unpack_packet(data) ==
    LET n == Len(data)
        version == from_be(SubSeq(data, 1, 4))
        count == from_be(SubSeq(data, 5, 12))
        pub_len == from_be(SubSeq(data, 13, 14))
        pub_end == 14 + pub_len
        kem_len == from_be(SubSeq(data, pub_end + 1, pub_end + 4))
        kem_end == pub_end + 4 + kem_len
        tag_end == kem_end + SEMANTIC_TAG_LEN
        ct_len == from_be(SubSeq(data, tag_end + 1, tag_end + 4))
        ct_end == tag_end + 4 + ct_len
    IN IF n < 14 THEN [err |-> "MalformedPacket"]
       ELSE IF version # WIRE_VERSION THEN [err |-> "UnsupportedVersion"]
       ELSE IF pub_len > MAX_RATCHET_PUB_LEN \/ n < pub_end + 4
       THEN [err |-> "MalformedPacket"]
       ELSE IF kem_len > MAX_KEM_CT_LEN \/ n < tag_end + 4
       THEN [err |-> "MalformedPacket"]
       ELSE IF ct_len > MAX_CIPHERTEXT_LEN \/ n # ct_end
       THEN [err |-> "MalformedPacket"]
       ELSE [err |-> "",
             packet |->
               [header |-> [version        |-> version,
                            count          |-> count,
                            ratchet_pub    |-> SubSeq(data, 15, pub_end),
                            kem_ciphertext |-> SubSeq(data, pub_end + 5, kem_end),
                            semantic_tag   |-> SubSeq(data, kem_end + 1, tag_end)],
                ciphertext |-> SubSeq(data, tag_end + 5, ct_end)]]

\* well-formed packets, fields as byte strings
CodecCounts == {0, 1, 255, 256, 65536}
CodecKeys == {<<>>, <<7>>, <<1, 2>>}
CodecTags == {[i \in 1..SEMANTIC_TAG_LEN |-> 0], [i \in 1..SEMANTIC_TAG_LEN |-> 240 + i]}
CodecTexts == {<<>>, <<0>>, <<255, 0>>}
WellFormed ==
    {[header |-> [version |-> WIRE_VERSION, count |-> c, ratchet_pub |-> r,
                  kem_ciphertext |-> k, semantic_tag |-> g],
      ciphertext |-> x] :
        c \in CodecCounts, r \in CodecKeys, k \in CodecKeys, g \in CodecTags,
        x \in CodecTexts}

\* packet k is packed
PackPacket(k) ==
    LET r == pack_packet(sent[k].pkt)
    IN /\ \A b \in 1..Len(blobs) : blobs[b].at # k
       /\ IF r.err = ""
          THEN /\ blobs' = Append(blobs, [blob |-> r.data, of |-> sent[k].by, at |-> k])
               /\ last' = Call("pack_packet", sent[k].by, k, <<>>)
          ELSE /\ last' = Raised("pack_packet", sent[k].by, k, <<>>, r.err)
               /\ UNCHANGED blobs
       /\ UNCHANGED <<sess, reqs, resps, sent, okcalls, flow, cap>>

\* the bytes made by the last pack_packet are unpacked
UnpackPacket(b) ==
    LET r == unpack_packet(blobs[b].blob)
    IN /\ last.op = "pack_packet"
       /\ last' = IF r.err = ""
                  THEN [Call("unpack_packet", "B", b, <<>>) EXCEPT !.pt = r.packet]
                  ELSE Raised("unpack_packet", "B", b, <<>>, r.err)
       /\ UNCHANGED <<sess, reqs, resps, sent, blobs, okcalls, flow, cap>>

InitCodec ==
    /\ sess = <<>>
    /\ reqs = <<>>
    /\ resps = <<>>
    /\ \E p \in WellFormed :
           sent = <<[pkt |-> p, by |-> "A", pt |-> <<>>, ad |-> <<>>, after |-> 0]>>
    /\ blobs = <<>>
    /\ last = NoCall
    /\ okcalls = {}
    /\ flow = Broken
    /\ cap = 0

NextCodec ==
    \/ \E k \in 1..Len(sent) : PackPacket(k)
    \/ \E b \in 1..Len(blobs) : UnpackPacket(b)

SpecCodec == InitCodec /\ [][NextCodec]_vars

\* C21: for every well-formed packet p, unpack_packet(pack_packet(p)) equals
\* p field for field.
C21_CodecRoundTrip ==
    /\ last.op = "pack_packet" => last.ok
    /\ last.op = "unpack_packet" =>
          /\ last.ok
          /\ last.pt = sent[blobs[last.k].at].pkt

\* a packet with an empty ratchet_pub, a two-byte kem_ciphertext and a count
\* of more than two bytes went through the codec
C21_Witness ==
    /\ last.op = "unpack_packet"
    /\ last.ok
    /\ last.pt.header.ratchet_pub = <<>>
    /\ Len(last.pt.header.kem_ciphertext) = 2
    /\ last.pt.header.count = 65536
    /\ Len(last.pt.ciphertext) = 2

\* the packets session s has emitted before packet k
EmittedBefore(s, k) == {j \in 1..(k - 1) : sent[j].by = s}

\* C22: the packets returned by the successive successful encrypt calls of
\* one session carry header.count = 0, 1, 2, ... in call order, whatever
\* decrypt calls are interleaved; no two packets of a session share a count.
C22_Counts ==
    \A k \in 1..Len(sent) :
        sent[k].pkt.header.count = Cardinality(EmittedBefore(sent[k].by, k))

\* a session emits its second packet after a decrypt that failed but
\* advanced its receive side
C22_Witness ==
    /\ last.op = "encrypt"
    /\ last.ok
    /\ sent[last.k].pkt.header.count = 1
    /\ sess[last.s].state[1].recv_count > 0
    /\ \E k \in 1..Len(sent) : sent[k].by # last.s /\ <<"decrypt", last.s, k>> \notin okcalls

\* the first two packets crossed: each peer encrypted one before it had
\* decrypted anything (tests/test_integration.py:42-43)
Crossed ==
    /\ Len(sent) = 2
    /\ {sent[1].by, sent[2].by} = Peers
    /\ sent[1].after = {} /\ sent[2].after = {}
\* session s has made no decrypt call that reached its ratchet, or only the
\* successful one for packet k
OnlyDecrypted(s, k) ==
    \/ sess[s].state[1].recv_count = 0
    \/ sess[s].state[1].recv_count = 1 /\ <<"decrypt", s, k>> \in okcalls

\* C23: when both peers encrypt a message before either has decrypted the
\* other's packet, each peer's subsequent decrypt of the other's packet
\* succeeds and returns the sent plaintext.
C23_Crossing ==
    [][ (/\ Handed
         /\ Crossed
         /\ last'.s \in Peers
         /\ last'.ad = sent[last'.k].ad
         /\ sess[last'.s].state[1].recv_count = 0
         /\ OnlyDecrypted(sent[last'.k].by, 3 - last'.k)) => Returned' ]_vars

\* sessions r and s are the two ends of one completed handshake
SameSession(r, s) ==
    \E k \in 1..Len(resps) :
        \E i \in DOMAIN sess :
            <<"finalize_handshake", i, k>> \in okcalls /\ {r, s} = {i, resps[k].by}

\* C24: a packet produced in one session is never successfully decrypted by
\* a peer belonging to a different session, even when both sessions were
\* created with the same semantic hints.
C24_Isolation ==
    (last.op = "decrypt" /\ last.tamper = "none"
        /\ ~SameSession(last.s, sent[last.k].by)) => ~last.ok

\* a ready responder with the hint of the sender's partner was handed the
\* sender's packet and its ratchet rejected it
C24_Witness ==
    /\ last.op = "decrypt"
    /\ last.tamper = "none"
    /\ ~SameSession(last.s, sent[last.k].by)
    /\ \E p \in DOMAIN sess \ {last.s} :
           /\ SameSession(p, sent[last.k].by)
           /\ sess[p].semantic_hint = sess[last.s].semantic_hint
    /\ is_ready(sess[last.s])
    /\ sess[last.s].state[1].recv_count > 0
    /\ ~last.ok

\* the errors raised before decrypt touches the ratchet
EarlyErrors == {"Semantic tag mismatch", "Message already processed"}

\* C25: a decrypt call that fails with 'Semantic tag mismatch' or with
\* 'Message already processed' leaves the whole ratchet state exactly as it
\* was before the call.
C25_RejectFrame ==
    [][ (last'.op = "decrypt" /\ last'.err \in EarlyErrors) =>
            sess'[last'.s] = sess[last'.s] ]_vars

\* both rejections happened on a session that holds skipped keys: a replay
\* after a skip, and an altered count
C25_Witness ==
    /\ last.op = "decrypt"
    /\ last.err \in EarlyErrors
    /\ Cached(sess[last.s]) # {}
    /\ sess[last.s].state[1].recv_count > 1

\* header.count of the packet handed over by the step, altered or not
HandedCount ==
    IF last'.tamper = "none" THEN sent[last'.k].pkt.header.count ELSE AlteredCount
\* session s has moved past index i and holds no skipped key for it
Passed(s, i) == i < sess[s].state[1].recv_count /\ i \notin Cached(sess[s])
\* the same, after the step
PassedAfter(s, i) == i < sess'[s].state[1].recv_count /\ i \notin Cached(sess'[s])
\* the indices a packet of the model can carry
Indices == 0..MaxPacketsTamper \cup {FarCount}

\* C26: a decrypt for an index i >= recv_count that passes the semantic tag
\* check and then fails authentication leaves the receive state advanced
\* past i; from then on every decrypt for index i, the genuine packet
\* included, fails with 'Message already processed'.
C26_FailedAdvance ==
    [][ /\ (last'.op = "decrypt" /\ last'.err = "Authentication tag mismatch"
              /\ HandedCount >= sess[last'.s].state[1].recv_count) =>
                PassedAfter(last'.s, HandedCount)
        /\ \A s \in DOMAIN sess, i \in Indices : Passed(s, i) => PassedAfter(s, i)
        /\ (last'.op = "decrypt" /\ Passed(last'.s, HandedCount)) =>
                last'.err = "Message already processed" ]_vars

\* the genuine packet with its own associated data, never decrypted by the
\* session, is refused as already processed
C26_Witness ==
    /\ last.op = "decrypt"
    /\ last.tamper = "none"
    /\ last.ad = sent[last.k].ad
    /\ <<"decrypt", last.s, last.k>> \notin okcalls
    /\ last.err = "Message already processed"
    /\ Len(sent) = 1
    /\ sess[sent[1].by].state[1].recv_count = 0

\* the part of the ratchet state that is not the receive side
SendSide(state) ==
    <<state.root_key, state.send_chain_key, state.send_count,
      state.local_ratchet_private, state.local_ratchet_public,
      state.remote_ratchet_public>>

\* C27: a decrypt call that fails with 'Authentication tag mismatch' changes
\* nothing in the ratchet state other than the receive side: root_key,
\* send_chain_key, the local ratchet keypair and remote_ratchet_public are
\* as they were before the call.
C27_AuthFrame ==
    [][ (last'.op = "decrypt" /\ last'.err = "Authentication tag mismatch") =>
            SendSide(sess'[last'.s].state[1]) = SendSide(sess[last'.s].state[1]) ]_vars

\* C28: a decrypt call of a forged packet for an index held in the
\* skipped-key cache that fails leaves that cache entry in place; an entry is removed only by a
\* successful decrypt of its index or by eviction.
C28_EntryKept ==
    [][ (last'.op = "decrypt" /\ ~last'.ok /\ is_ready(sess[last'.s])
            /\ (last'.tamper # "none" \/ last'.ad # sent[last'.k].ad)
            /\ HandedCount \in Cached(sess[last'.s])) =>
                HandedCount \in Cached(sess'[last'.s]) ]_vars

\* the alterations after which header.semantic_tag is not the tag expected
\* for header.count
TagTampers == CountTampers \cup {"semantic_tag"}

\* C29: for every packet whose header.semantic_tag differs from the tag
\* expected for header.count, decrypt fails with 'Semantic tag mismatch',
\* whatever the relation of header.count to recv_count.
C29_TagFirst ==
    [][ (last'.op = "decrypt" /\ last'.tamper \in TagTampers
            /\ is_ready(sess[last'.s])) =>
                (~last'.ok /\ last'.err = "Semantic tag mismatch") ]_vars

\* the same for indices that are not below recv_count
TagChecked ==
    [][ (last'.op = "decrypt" /\ last'.tamper \in TagTampers
            /\ is_ready(sess[last'.s])
            /\ HandedCount >= sess[last'.s].state[1].recv_count) =>
                (~last'.ok /\ last'.err = "Semantic tag mismatch") ]_vars

\* C30: a packet that was skipped by the receiver and arrives after the
\* receiver has processed a later KEM-pulse packet (every packet of
\* ForwardRatchet.encrypt is one) is rejected with 'Message already
\* processed'.
C30_PulseClears ==
    [][ (Handed /\ HandedIndex < sess[last'.s].state[1].recv_count) =>
            (~last'.ok /\ last'.err = "Message already processed") ]_vars

C32_Monotonic ==
    [][ \A s \in DOMAIN sess :
          is_ready(sess[s]) =>
             /\ sess'[s].state[1].send_count >= sess[s].state[1].send_count
             /\ sess'[s].state[1].recv_count >= sess[s].state[1].recv_count ]_vars

\* a session that has sent a packet and advanced its receive side was
\* handed a packet that it rejected
C32_Witness ==
    /\ last.op = "decrypt"
    /\ ~last.ok
    /\ sess[last.s].state[1].send_count > 0
    /\ sess[last.s].state[1].recv_count > 0

\* C33: of the accept_handshake calls that responder sessions make with
\* requests carrying the same handshake_id, at most one succeeds, so no two
\* sessions have answered the same handshake_id.
C33_AtomicReplay ==
    \A j, k \in 1..Len(resps) :
        (resps[j].msg.handshake_id = resps[k].msg.handshake_id) =>
            (resps[j].by = resps[k].by)

\* C34: an accept_handshake call handed a request whose kem_public,
\* ratchet_public, semantic_digest or handshake_id was altered is rejected
\* and does not make the responder ready.
C34_SignatureChecked ==
    [][ (last'.op = "accept_handshake" /\ last'.tamper # "none") =>
           /\ ~last'.ok
           /\ is_ready(sess'[last'.s]) = is_ready(sess[last'.s]) ]_vars

\* the packet handed over last was encrypted by the session that blob b
\* was exported from, after the export
OwnLater(b) == sent[last.k].by = blobs[b].of /\ blobs[b].of \in Peers /\ last.k > blobs[b].at

\* C35: a session restored from a snapshot of the sender never decrypts a
\* packet the sender encrypted after the snapshot was taken, whatever
\* associated data it is handed with, while the sender's peer, handed the
\* packets in order, decrypts it.
C35_PostCompromise ==
    \A b \in 1..Len(blobs) :
        /\ (last.op = "decrypt" /\ Snapshot(b) /\ OwnLater(b)) => ~last.ok
        /\ (Delivered /\ flow.clean /\ flow.inorder /\ OwnLater(b)) => Returned

\* the restored session has failed on a packet of the session it was
\* exported from, which that session's peer has decrypted
C35_Witness ==
    \E b \in 1..Len(blobs) :
        /\ last.op = "decrypt" /\ Snapshot(b) /\ OwnLater(b) /\ ~last.ok
        /\ \E p \in Peers : <<"decrypt", p, last.k>> \in okcalls

\* both peers hold the same root_key
SameRoot == sess["A"].state[1].root_key = sess["B"].state[1].root_key

\* C36: in a strictly alternating exchange (each packet is handed to the
\* peer before either side encrypts again; the sender may change from one
\* message to the next) every decrypt returns the sent plaintext, and after
\* it both peers hold the same root_key.
C36_Alternating ==
    (Delivered /\ flow.clean /\ flow.inorder /\ flow.backlog <= 1) =>
        (Returned /\ SameRoot)

\* the third packet of an exchange in which the sender changed twice
C36_Witness ==
    /\ Delivered /\ flow.clean /\ flow.inorder /\ flow.backlog = 1
    /\ last.k = 3 /\ last.ok
    /\ sent[1].by = "A" /\ sent[2].by = "B" /\ sent[3].by = "A"

\* C37: a session that is ready stays ready after every operation,
\* including encrypt and decrypt calls that raise and handshake calls that
\* are rejected.
C37_ReadyStable ==
    [][ \A s \in DOMAIN sess : is_ready(sess[s]) => is_ready(sess'[s]) ]_vars

\* a ready session has rejected a packet
C37_Witness == last.op = "decrypt" /\ ~last.ok /\ last.err # "Session not ready" /\ is_ready(sess[last.s])

\* the errors decrypt raises after the receive state was advanced
LateErrors == {"Nonce mismatch", "Authentication tag mismatch"}

\* C38: decrypt has no limit on header.count - recv_count: a packet for any
\* index i >= recv_count whose semantic tag matches makes decrypt derive the
\* keys of recv_count..i-1, keep the max_skip highest cached indices and set
\* recv_count to i + 1, also when i - recv_count exceeds max_skip; it is
\* never rejected for skipping too far.
C38_NoGapLimit ==
    [][ (/\ Handed
         /\ HandedIndex >= sess[last'.s].state[1].recv_count
         /\ sent[last'.k].pkt.header.semantic_tag =
               compute_semantic_tag(sess[last'.s].state[1].combined_digest, HandedIndex)) =>
           LET before == sess[last'.s].state[1]
               after == sess'[last'.s].state[1]
           IN /\ after.recv_count = HandedIndex + 1
              /\ Cached(sess'[last'.s]) =
                    Largest(Cached(sess[last'.s]) \cup (before.recv_count..(HandedIndex - 1)),
                            before.max_skip)
              /\ last'.ok \/ last'.err \in LateErrors ]_vars

\* the first packet handed to "B" carried index 2 while max_skip is 1
C38_Witness ==
    /\ last.op = "decrypt" /\ last.s = "B"
    /\ flow.clean /\ flow.got = {last.k}
    /\ sent[last.k].pkt.header.count = 2
    /\ sess["B"].state[1].max_skip = 1
    /\ sess["B"].state[1].recv_count = 3
    /\ Cached(sess["B"]) = {1}

\* the parts of the ratchet state fixed by the handshake
Fixed(state) ==
    <<state.send_label, state.recv_label, state.combined_digest,
      state.local_digest, state.remote_digest, state.max_skip>>
\* the parts of the ratchet state that only decrypt writes
ReceiveOnly(state) ==
    <<state.recv_count, state.skipped_message_keys, state.remote_ratchet_public>>
\* the parts of the ratchet state that only encrypt writes
SendOnly(state) ==
    <<state.send_count, state.local_ratchet_private, state.local_ratchet_public>>

\* C39: encrypt leaves recv_count, skipped_message_keys and
\* remote_ratchet_public as they were; decrypt leaves send_count and the
\* local ratchet keypair as they were; neither changes send_label,
\* recv_label, combined_digest, local_digest, remote_digest or max_skip.
C39_Frame ==
    [][ \A s \in DOMAIN sess :
          LET before == sess[s].state[1]
              after == sess'[s].state[1]
          IN /\ Fixed(after) = Fixed(before)
             /\ last'.op = "encrypt" => ReceiveOnly(after) = ReceiveOnly(before)
             /\ last'.op = "decrypt" => SendOnly(after) = SendOnly(before) ]_vars

\* a session that has received a packet has encrypted one
C39_Witness ==
    /\ last.op = "encrypt" /\ last.ok
    /\ sess[last.s].state[1].recv_count > 0
    /\ sess[last.s].state[1].send_count > 0

\* the (send_chain_key, send_count) pair packet k was keyed from: the
\* arguments of the derive_message_material call that produced its nonce
KeyedFrom(k) == <<sent[k].pkt.nonce[2], sent[k].pkt.nonce[3]>>

\* C40: no two packets encrypted by the same session were keyed from the
\* same (send_chain_key, send_count) pair, so none share a message key and
\* nonce.
C40_NoKeyReuse ==
    \A j, k \in 1..Len(sent) :
        (j # k /\ sent[j].by = sent[k].by) =>
            (KeyedFrom(j) # KeyedFrom(k) /\ sent[j].pkt.nonce # sent[k].pkt.nonce)

\* "A" has encrypted two packets and "B" one, the last of them after its
\* sender had decrypted a packet of the peer
C40_Witness ==
    /\ Cardinality({k \in 1..Len(sent) : sent[k].by = "A"}) >= 2
    /\ Cardinality({k \in 1..Len(sent) : sent[k].by = "B"}) >= 1
    /\ last.op = "encrypt" /\ last.ok /\ sent[last.k].after # {}

====
